---- MODULE Spec2Model ----
(***************************************************************************)
(* The concurrent LRU cache of wzshiming/lru (the variant with a promotion *)
(* worker and an eviction worker): the recency list, the key index, the    *)
(* two channels, the callers' operations step by step, and the two         *)
(* background goroutines.                                                  *)
(*                                                                         *)
(* The list is a sequence of node identities, front (least recent) first.  *)
(* The underlying internal/container/list follows Go's container/list:     *)
(* Remove and MoveToBack of an element that is no longer in the list do    *)
(* nothing.                                                                *)
(***************************************************************************)
EXTENDS Integers, Sequences, FiniteSets, TLC

\* ---------------------------------------------------------------- bounds

\* Number of nodes the callers may create (Put of an absent key).
MaxNodes == 3
\* Number of operations the concurrent callers begin.
MaxOps == 3
\* Number of operations the sequential caller begins.
MaxSeqOps == 5
\* Width of the unsigned size field (uint64 in the source, scaled down).
UintBits == 4
\* Capacity of recentlyCh (128 in the source, scaled down).
RecentlyChCap == 1

\* Capacity of evictCh: make(chan struct{}, 1)
EvictChCap == 1

KeySet == {"a", "b", "c"}
\* The keys of TestLRU, and the number of its first Puts.
ScenarioKeys == {"key0", "key1", "key2", "key3", "key4"}
ScenarioNodes == 5
\* NewLRU[string, string](4, ...) of TestLRU
ScenarioSize == 4
Callers == {"c1", "c2"}
\* The call at which the visit function of a ForEach answers FALSE (0: never).
StopAts == {0, 1}
\* The eviction worker and the promotion worker.
EW == "E"
RW == "R"
Procs == Callers \cup {EW, RW}
NodeIds == 1 .. (IF MaxNodes > ScenarioNodes THEN MaxNodes ELSE ScenarioNodes)
\* A nil *list.Element, and the key of a node not yet allocated.
NoNode == 0
NoKey == "-"

VARIABLES
  list,        \* linked.list: node ids, front (least recent) first
  items,       \* items: key -> node id, NoNode when absent
  nkey,        \* entries.key of every node
  nval,        \* entries.value of every node
  created,     \* number of nodes allocated so far
  size,        \* LRU.size (unsigned)
  evictCh,     \* number of triggers buffered in evictCh
  recentlyCh,  \* nodes buffered in recentlyCh
  isClosed,    \* LRU.isClosed
  mut,         \* holder of LRU.mut, or "none"
  pc,          \* position of every caller and worker
  loc,         \* local variables of every caller and worker
  evictedCalls,\* per node: number of calls of the evicted callback (capped)
  deleteRets,  \* per node: number of Delete calls that returned it (capped)
  evictRets,   \* per node: number of Evict calls that returned it (capped)
  sched,       \* "free": concurrent callers; "seq": one caller that lets
               \* the workers settle before every call, as TestLRU does
  ops,         \* number of operations begun by the callers
  retouched,   \* nodes a Get or a Put on a present key has touched
  touchOrder,  \* nodes by their last completed Put/Get, oldest first
  lastOp,      \* the last caller operation, while nothing else has run
  putCalls,    \* per caller: its last Put, recorded for the racing callers
  ref,         \* the single-threaded reference cache
  syn          \* the cache with synchronous promotion

\* The variables of the cache with the two workers.
lruVars == <<list, items, nkey, nval, created, size, evictCh, recentlyCh,
             isClosed, mut, pc, loc, evictedCalls, deleteRets, evictRets,
             sched, ops, retouched, touchOrder, lastOp, putCalls>>

vars == <<lruVars, ref, syn>>

\* ------------------------------------------------------------ list.List

InList(l, n) == \E i \in 1 .. Len(l) : l[i] = n

Front(l) == IF l = <<>> THEN NoNode ELSE Head(l)

Back(l) == IF l = <<>> THEN NoNode ELSE l[Len(l)]

PushBack(l, n) == Append(l, n)

Remove(l, n) == SelectSeq(l, LAMBDA x : x # n)

\* A MoveToBack that leaves the element where it is.
MoveToBackStays(l, n) == l

MoveToBack(l, n) == IF InList(l, n) THEN Append(Remove(l, n), n) ELSE l

\* -------------------------------------------------------------- integers

Pow2(n) == 2 ^ n

\* uint64(size)
ToUint(n) == n % Pow2(UintBits)

\* int(x) of an unsigned x
ToInt(u) == IF u >= Pow2(UintBits - 1) THEN u - Pow2(UintBits) ELSE u

\* ------------------------------------------------------------- observers

LruLen == Len(list)

Cap == ToInt(size)

Contains(k) == items[k] # NoNode

Peek(k) == IF items[k] # NoNode THEN nval[items[k]] ELSE 0

\* ForEach of linked: from Back through Prev; the visits made when the
\* visit function answers FALSE at its stopAt-th call (0: never).
RECURSIVE linkedForEach(_, _, _)
linkedForEach(l, stopAt, calls) ==
  IF l = <<>> THEN <<>>
  ELSE LET element == l[Len(l)]
           answer == (calls + 1 # stopAt)
           rest == SubSeq(l, 1, Len(l) - 1)
       IN <<<<element, answer>>>> \o linkedForEach(rest, stopAt, calls + 1)

Keys == [i \in 1 .. Len(list) |-> nkey[linkedForEach(list, 0, 0)[i][1]]]

Values == [i \in 1 .. Len(list) |-> nval[linkedForEach(list, 0, 0)[i][1]]]

\* ------------------------------------------------------------- helpers

Loc0 == [key |-> NoKey, val |-> 0, item |-> NoNode, prev |-> 0, n |-> 0, held |-> FALSE]

NoOp == [by |-> "none"]

\* The inputs of the disciplines.
KeysOf == IF sched = "free" THEN {"a", "b"} ELSE KeySet

\* The keys the index is defined on.
KeysFor(d) == IF d = "scn" THEN ScenarioKeys ELSE KeySet

SizesOf(d) ==
  IF d \in {"free", "race"} THEN {0, 2}
  ELSE IF d = "scn" THEN {ScenarioSize}
  ELSE IF d = "seq" THEN {2, 3}
  ELSE {0}

\* The calls of TestLRU that change the cache, in their order; wait: a
\* testStep (which sleeps, so that the workers settle) comes before the call.
Script ==
  << [kind |-> "Evict", key |-> NoKey, wait |-> TRUE],
     [kind |-> "Put", key |-> "key0", wait |-> FALSE],
     [kind |-> "Put", key |-> "key1", wait |-> FALSE],
     [kind |-> "Put", key |-> "key2", wait |-> FALSE],
     [kind |-> "Put", key |-> "key3", wait |-> FALSE],
     [kind |-> "Put", key |-> "key4", wait |-> FALSE],
     [kind |-> "Put", key |-> "key2", wait |-> TRUE],
     [kind |-> "Get", key |-> "key3", wait |-> TRUE],
     [kind |-> "Delete", key |-> "key3", wait |-> TRUE],
     [kind |-> "Evict", key |-> NoKey, wait |-> TRUE] >>

\* The number of nodes the callers may create.
NodeLimit == IF sched = "scn" THEN ScenarioNodes ELSE MaxNodes

ResizeArgs == IF sched = "free" THEN {-1, 1} ELSE {-1, 1, 3}

\* The racing callers make a Put each after one Put that sets up the
\* cache, and one of them may call Close.
Budget ==
  IF sched = "free" THEN MaxOps
  ELSE IF sched = "scn" THEN Len(Script)
  ELSE IF sched = "race" THEN Cardinality(Callers) + 2
  ELSE MaxSeqOps

\* The value a Put writes: the number of the operation, so that every Put
\* writes a value of its own.
ValOf == ops + 1

Bump(f, n) == [f EXCEPT ![n] = IF @ < 2 THEN @ + 1 ELSE @]

tryEvict(ch) == IF ch < EvictChCap THEN ch + 1 ELSE ch

Idle(c) == pc[c] = "idle"

OthersIdle(c) == \A d \in Callers \ {c} : pc[d] = "idle"

\* Both workers wait (or have ended) and nothing is buffered for them.
WorkersSettled ==
  /\ pc[RW] \in {"r_recv", "done"}
  /\ pc[EW] \in {"e_recv", "done"}
  /\ pc[RW] = "r_recv" => recentlyCh = <<>>
  /\ pc[EW] = "e_recv" => evictCh = 0

Settled ==
  /\ \A c \in Callers : Idle(c)
  /\ WorkersSettled
  /\ recentlyCh = <<>>

\* The eviction worker has nothing to remove and is not inside a sweep.
Calm ==
  /\ isClosed = 0
  /\ LruLen <= Cap
  /\ pc[EW] \in {"e_check", "e_recv"}

OpBegin(c, kind, k, v) ==
  IF OthersIdle(c)
  THEN [by |-> c, kind |-> kind, key |-> k, arg |-> v, done |-> FALSE,
        found |-> FALSE, ret |-> 0, preKeys |-> Keys, preValues |-> Values,
        preCap |-> Cap, settled |-> (WorkersSettled /\ recentlyCh = <<>>),
        prePeek |-> (IF k \in DOMAIN items THEN Peek(k) ELSE 0),
        preHas |-> {x \in DOMAIN items : Contains(x)},
        calm |-> Calm, node |-> NoNode, log |-> <<>>,
        preEvicted |-> evictedCalls]
  ELSE NoOp

OpStep(c) == IF lastOp.by = c THEN lastOp ELSE NoOp

OpEnd(c, found, ret, node) ==
  IF lastOp.by = c
  THEN [lastOp EXCEPT !.done = TRUE, !.found = found, !.ret = ret, !.node = node]
  ELSE NoOp

\* An operation that begins and returns in one step.
OpWhole(c, kind, k, v, found, ret, node) ==
  IF OthersIdle(c)
  THEN [OpBegin(c, kind, k, v) EXCEPT !.done = TRUE, !.found = found,
                                      !.ret = ret, !.node = node]
  ELSE NoOp

Touch(order, n) == Append(SelectSeq(order, LAMBDA x : x # n), n)

\* The record of a caller that has made no Put.
Call0 == [n |-> 0, absent |-> FALSE, pre |-> 0, val |-> 0, len |-> 0,
          done |-> FALSE, replaced |-> FALSE, prev |-> 0, with |-> FALSE]

\* Put(k, v) by caller c begins: its record, and the mark of an overlap in
\* the record of a caller that is inside a Put.
CallBegin(c, k, v) ==
  IF sched # "race" THEN putCalls
  ELSE [d \in Callers |->
          IF d = c
          THEN [n |-> putCalls[c].n + 1, absent |-> ~Contains(k), pre |-> Peek(k),
                val |-> v, len |-> LruLen, done |-> FALSE, replaced |-> FALSE,
                prev |-> 0, with |-> ~OthersIdle(c)]
          ELSE IF Idle(d) THEN putCalls[d]
          ELSE [putCalls[d] EXCEPT !.with = TRUE]]

\* The Put of caller c returns (prev, replaced).
CallEnd(c, replaced, prev) ==
  IF sched # "race" THEN putCalls
  ELSE [putCalls EXCEPT ![c].done = TRUE, ![c].replaced = replaced, ![c].prev = prev]

\* The sizes given to NewLRU of the reference cache.
RefSizes == {-1, 1, 3}
\* The values given to its Put.
RefValues == {1, 2}

\* NewLRU of the reference cache: a negative size becomes 0.
RefNew(n) ==
  [size |-> IF n < 0 THEN 0 ELSE n,
   evictList |-> <<>>,
   entries |-> {},
   values |-> [k \in KeySet |-> 0],
   pc |-> "idle",
   purged |-> FALSE]

RefInits(d) == IF d = "ref" THEN {RefNew(n) : n \in RefSizes} ELSE {RefNew(0)}

\* NewLRU of the cache with synchronous promotion. itemsW and itemsR: the
\* writer and the readers that hold itemsMut; linkedR: the readers that
\* hold linkedMut (its writers lock and unlock within one step).
SynNew(n) ==
  [size |-> ToUint(n),
   list |-> <<>>,
   items |-> {},
   evictCh |-> 0,
   itemsW |-> "none",
   itemsR |-> {},
   linkedR |-> {},
   pc |-> [p \in Callers \cup {EW} |-> IF p = EW THEN "recv" ELSE "idle"],
   key |-> [p \in Callers \cup {EW} |-> NoKey],
   at |-> [c \in Callers |-> 0],
   stop |-> [c \in Callers |-> 0]]

\* ------------------------------------------------------------------ Init

InitFor(d) ==
  /\ list = <<>>
  /\ items = [k \in KeysFor(d) |-> NoNode]
  /\ nkey = [n \in NodeIds |-> NoKey]
  /\ nval = [n \in NodeIds |-> 0]
  /\ created = 0
  /\ sched = d
  /\ ops = 0
  /\ size \in {ToUint(n) : n \in SizesOf(d)}
  /\ evictCh = 0
  /\ recentlyCh = <<>>
  /\ isClosed = 0
  /\ mut = "none"
  /\ pc = [p \in Procs |-> IF p = EW THEN "e_check"
                           ELSE IF p = RW THEN "r_check" ELSE "idle"]
  /\ loc = [p \in Procs |-> Loc0]
  /\ evictedCalls = [n \in NodeIds |-> 0]
  /\ deleteRets = [n \in NodeIds |-> 0]
  /\ evictRets = [n \in NodeIds |-> 0]
  /\ retouched = {}
  /\ touchOrder = <<>>
  /\ lastOp = NoOp
  /\ putCalls = [c \in Callers |-> Call0]
  /\ ref \in RefInits(d)
  /\ syn = SynNew(1)

Init == InitFor("free")

SeqInit == InitFor("seq")

\* A caller begins an operation: any idle caller within the budget, or the
\* one sequential caller once the workers have settled, or the caller of
\* TestLRU, which waits where the test has a testStep.
Begin(c) ==
  /\ Idle(c)
  /\ ops < Budget
  /\ sched = "seq" => c = "c1" /\ Settled
  /\ sched = "scn" => c = "c1" /\ (Script[ops + 1].wait => Settled)
  /\ ops' = ops + 1

\* A Put of an absent key allocates a node: at most MaxNodes are allocated.
Reserved == Cardinality({d \in Callers : pc[d] \in {"put_lock", "put_push"}})

SetPc(p, label) == [pc EXCEPT ![p] = label]

\* ------------------------------------------------------------------- Put

\* items.Load(key); the hit goes to toRecently, the miss to l.mut.Lock().
PutLoad(c, k, v) ==
  /\ Begin(c)
  /\ items[k] = NoNode => created + Reserved < NodeLimit
  /\ pc' = SetPc(c, IF items[k] # NoNode THEN "put_enq" ELSE "put_lock")
  /\ loc' = [loc EXCEPT ![c] = [Loc0 EXCEPT !.key = k, !.val = v, !.item = items[k]]]
  /\ lastOp' = OpBegin(c, "Put", k, v)
  /\ putCalls' = CallBegin(c, k, v)
  /\ UNCHANGED <<list, items, nkey, nval, created, size, evictCh, recentlyCh,
                 isClosed, mut, evictedCalls, deleteRets, evictRets, sched, ref, syn,
                 retouched, touchOrder>>

\* l.mut.Lock() without the second items.Load(key): the Put goes on to add.
PutLockNoRecheck(c) ==
  /\ pc[c] = "put_lock"
  /\ mut = "none"
  /\ mut' = c
  /\ pc' = SetPc(c, "put_push")
  /\ loc' = [loc EXCEPT ![c].held = TRUE]
  /\ lastOp' = OpStep(c)
  /\ UNCHANGED <<list, items, nkey, nval, created, size, evictCh, recentlyCh,
                 isClosed, evictedCalls, deleteRets, evictRets, sched, putCalls,
                 ref, syn, ops, retouched, touchOrder>>

\* l.mut.Lock() and the second items.Load(key).
PutLock(c) ==
  /\ pc[c] = "put_lock"
  /\ mut = "none"
  /\ mut' = c
  /\ pc' = SetPc(c, IF items[loc[c].key] # NoNode THEN "put_enq" ELSE "put_push")
  /\ loc' = [loc EXCEPT ![c].item = items[loc[c].key], ![c].held = TRUE]
  /\ lastOp' = OpStep(c)
  /\ UNCHANGED <<list, items, nkey, nval, created, size, evictCh, recentlyCh,
                 isClosed, evictedCalls, deleteRets, evictRets, sched, putCalls, ref, syn, ops,
                 retouched, touchOrder>>

\* toRecently(item): a send on recentlyCh, which blocks while it is full.
toRecently(c, next) ==
  /\ Len(recentlyCh) < RecentlyChCap
  /\ recentlyCh' = Append(recentlyCh, loc[c].item)
  /\ retouched' = retouched \cup {loc[c].item}
  /\ pc' = SetPc(c, next)
  /\ lastOp' = OpStep(c)
  /\ UNCHANGED <<list, items, nkey, nval, created, size, evictCh, isClosed,
                 mut, loc, evictedCalls, deleteRets, evictRets, sched, putCalls, ref, syn, ops,
                 touchOrder>>

PutEnq(c) ==
  /\ pc[c] = "put_enq"
  /\ toRecently(c, "put_setR")

\* entries.set, first half: prev := e.value
PutSetRead(c) ==
  /\ pc[c] = "put_setR"
  /\ loc' = [loc EXCEPT ![c].prev = nval[loc[c].item]]
  /\ pc' = SetPc(c, "put_setW")
  /\ lastOp' = OpStep(c)
  /\ UNCHANGED <<list, items, nkey, nval, created, size, evictCh, recentlyCh,
                 isClosed, mut, evictedCalls, deleteRets, evictRets, sched, putCalls, ref, syn, ops,
                 retouched, touchOrder>>

\* e.value = value
entriesSet(vals, n, v) == [vals EXCEPT ![n] = v]

\* entries.set, second half: e.value = value; return prev, true
PutSetWrite(c) ==
  /\ pc[c] = "put_setW"
  /\ nval' = entriesSet(nval, loc[c].item, loc[c].val)
  /\ mut' = IF loc[c].held THEN "none" ELSE mut
  /\ pc' = SetPc(c, "idle")
  /\ loc' = [loc EXCEPT ![c] = Loc0]
  /\ touchOrder' = Touch(touchOrder, loc[c].item)
  /\ lastOp' = OpEnd(c, TRUE, loc[c].prev, loc[c].item)
  /\ putCalls' = CallEnd(c, TRUE, loc[c].prev)
  /\ UNCHANGED <<list, items, nkey, created, size, evictCh, recentlyCh,
                 isClosed, evictedCalls, deleteRets, evictRets, sched, ref, syn, ops,
                 retouched>>

\* l.linked.PushBack(entries{key, value})
PutPush(c) ==
  /\ pc[c] = "put_push"
  /\ created < NodeLimit
  /\ created' = created + 1
  /\ nkey' = [nkey EXCEPT ![created + 1] = loc[c].key]
  /\ nval' = [nval EXCEPT ![created + 1] = loc[c].val]
  /\ list' = PushBack(list, created + 1)
  /\ loc' = [loc EXCEPT ![c].item = created + 1]
  /\ pc' = SetPc(c, "put_store")
  /\ lastOp' = OpStep(c)
  /\ UNCHANGED <<items, size, evictCh, recentlyCh, isClosed, mut,
                 evictedCalls, deleteRets, evictRets, sched, putCalls, ref, syn, ops, retouched,
                 touchOrder>>

\* l.items.Store(key, item)
PutStore(c) ==
  /\ pc[c] = "put_store"
  /\ items' = [items EXCEPT ![loc[c].key] = loc[c].item]
  /\ pc' = SetPc(c, "put_try")
  /\ lastOp' = OpStep(c)
  /\ UNCHANGED <<list, nkey, nval, created, size, evictCh, recentlyCh,
                 isClosed, mut, loc, evictedCalls, deleteRets, evictRets,
                 sched, putCalls, ref, syn, ops, retouched, touchOrder>>

\* l.tryEvict(); return (with the deferred l.mut.Unlock())
PutTry(c) ==
  /\ pc[c] = "put_try"
  /\ evictCh' = tryEvict(evictCh)
  /\ mut' = "none"
  /\ pc' = SetPc(c, "idle")
  /\ loc' = [loc EXCEPT ![c] = Loc0]
  /\ touchOrder' = Touch(touchOrder, loc[c].item)
  /\ lastOp' = OpEnd(c, FALSE, 0, loc[c].item)
  /\ putCalls' = CallEnd(c, FALSE, 0)
  /\ UNCHANGED <<list, items, nkey, nval, created, size, recentlyCh,
                 isClosed, evictedCalls, deleteRets, evictRets, sched, ref, syn, ops,
                 retouched>>

Put(c) ==
  \/ \E k \in KeysOf : PutLoad(c, k, ValOf)
  \/ PutLock(c)
  \/ PutEnq(c)
  \/ PutSetRead(c)
  \/ PutSetWrite(c)
  \/ PutPush(c)
  \/ PutStore(c)
  \/ PutTry(c)

\* ------------------------------------------------------------------- Get

\* items.Load(key); a miss returns at once.
GetLoad(c, k) ==
  /\ Begin(c)
  /\ IF items[k] = NoNode
     THEN /\ lastOp' = OpWhole(c, "Get", k, 0, FALSE, 0, NoNode)
          /\ UNCHANGED <<pc, loc>>
     ELSE /\ pc' = SetPc(c, "get_enq")
          /\ loc' = [loc EXCEPT ![c] = [Loc0 EXCEPT !.key = k, !.item = items[k]]]
          /\ lastOp' = OpBegin(c, "Get", k, 0)
  /\ UNCHANGED <<list, items, nkey, nval, created, size, evictCh, recentlyCh,
                 isClosed, mut, evictedCalls, deleteRets, evictRets, sched, putCalls, ref, syn,
                 retouched, touchOrder>>

GetEnq(c) ==
  /\ pc[c] = "get_enq"
  /\ toRecently(c, "get_read")

\* _, value = item.Value.get(); return value, true
GetRead(c) ==
  /\ pc[c] = "get_read"
  /\ pc' = SetPc(c, "idle")
  /\ loc' = [loc EXCEPT ![c] = Loc0]
  /\ touchOrder' = Touch(touchOrder, loc[c].item)
  /\ lastOp' = OpEnd(c, TRUE, nval[loc[c].item], loc[c].item)
  /\ UNCHANGED <<list, items, nkey, nval, created, size, evictCh, recentlyCh,
                 isClosed, mut, evictedCalls, deleteRets, evictRets, sched, putCalls, ref, syn, ops,
                 retouched>>

Get(c) ==
  \/ \E k \in KeysOf : GetLoad(c, k)
  \/ GetEnq(c)
  \/ GetRead(c)

\* ---------------------------------------------------------------- Delete

\* items.LoadAndDelete(key); a miss returns at once.
DeleteLoad(c, k) ==
  /\ Begin(c)
  /\ IF items[k] = NoNode
     THEN /\ lastOp' = OpWhole(c, "Delete", k, 0, FALSE, 0, NoNode)
          /\ UNCHANGED <<pc, loc, items>>
     ELSE /\ items' = [items EXCEPT ![k] = NoNode]
          /\ pc' = SetPc(c, "del_remove")
          /\ loc' = [loc EXCEPT ![c] = [Loc0 EXCEPT !.key = k, !.item = items[k]]]
          /\ lastOp' = OpBegin(c, "Delete", k, 0)
  /\ UNCHANGED <<list, nkey, nval, created, size, evictCh, recentlyCh,
                 isClosed, mut, evictedCalls, deleteRets, evictRets, sched, putCalls, ref, syn,
                 retouched, touchOrder>>

\* l.linked.Remove(item)
DeleteRemove(c) ==
  /\ pc[c] = "del_remove"
  /\ list' = Remove(list, loc[c].item)
  /\ pc' = SetPc(c, "del_read")
  /\ lastOp' = OpStep(c)
  /\ UNCHANGED <<items, nkey, nval, created, size, evictCh, recentlyCh,
                 isClosed, mut, loc, evictedCalls, deleteRets, evictRets,
                 sched, putCalls, ref, syn, ops, retouched, touchOrder>>

\* _, prev = item.Value.get(); return prev, true
DeleteRead(c) ==
  /\ pc[c] = "del_read"
  /\ deleteRets' = Bump(deleteRets, loc[c].item)
  /\ pc' = SetPc(c, "idle")
  /\ loc' = [loc EXCEPT ![c] = Loc0]
  /\ lastOp' = OpEnd(c, TRUE, nval[loc[c].item], loc[c].item)
  /\ UNCHANGED <<list, items, nkey, nval, created, size, evictCh, recentlyCh,
                 isClosed, mut, evictedCalls, evictRets, sched, putCalls, ref, syn, ops, retouched,
                 touchOrder>>

Delete(c) ==
  \/ \E k \in KeysOf : DeleteLoad(c, k)
  \/ DeleteRemove(c)
  \/ DeleteRead(c)

\* ------------------------------------------------------- evict and Evict

\* evict() with the most recent node picked instead of the least recent.
evictPickBack(l) == Back(l)

\* The node evict() picks: l.linked.Front()
evictPick(l) == Front(l)

\* item := l.linked.Remove(node): the list without the node, and the copy
\* of the entry the call returns.
evictRemove(p) ==
  /\ pc[p] = "ev_remove"
  /\ list' = Remove(list, loc[p].item)
  /\ loc' = [loc EXCEPT ![p].key = nkey[loc[p].item], ![p].val = nval[loc[p].item]]
  /\ pc' = SetPc(p, "ev_delete")
  /\ lastOp' = IF p \in Callers THEN OpStep(p) ELSE lastOp
  /\ UNCHANGED <<items, nkey, nval, created, size, evictCh, recentlyCh,
                 isClosed, mut, evictedCalls, deleteRets, evictRets, sched, putCalls, ref, syn, ops,
                 retouched, touchOrder>>

\* l.items.Delete(key); l.evicted(key, value); return node
evictDelete(p) ==
  /\ pc[p] = "ev_delete"
  /\ items' = [items EXCEPT ![loc[p].key] = NoNode]
  /\ evictedCalls' = Bump(evictedCalls, loc[p].item)
  /\ pc' = SetPc(p, IF p = EW THEN "e_len" ELSE "evict_ret")
  /\ loc' = [loc EXCEPT ![p] = IF p = EW THEN Loc0 ELSE @]
  /\ lastOp' = IF p \in Callers THEN OpStep(p) ELSE lastOp
  /\ UNCHANGED <<list, nkey, nval, created, size, evictCh, recentlyCh,
                 isClosed, mut, deleteRets, evictRets, sched, putCalls, ref, syn, ops, retouched,
                 touchOrder>>

\* Evict() without the test of a nil node: the call goes on to Remove.
EvictFrontNoNilTest(c) ==
  /\ Begin(c)
  /\ pc' = SetPc(c, "ev_remove")
  /\ loc' = [loc EXCEPT ![c] = [Loc0 EXCEPT !.item = evictPick(list)]]
  /\ lastOp' = OpBegin(c, "Evict", NoKey, 0)
  /\ UNCHANGED <<list, items, nkey, nval, created, size, evictCh, recentlyCh,
                 isClosed, mut, evictedCalls, deleteRets, evictRets, sched, putCalls, ref, syn,
                 retouched, touchOrder>>

\* Evict(): item := l.evict() begins with l.linked.Front(); an empty list
\* returns evicted = false at once.
EvictFront(c) ==
  /\ Begin(c)
  /\ IF evictPick(list) = NoNode
     THEN /\ lastOp' = OpWhole(c, "Evict", NoKey, 0, FALSE, 0, NoNode)
          /\ UNCHANGED <<pc, loc>>
     ELSE /\ pc' = SetPc(c, "ev_remove")
          /\ loc' = [loc EXCEPT ![c] = [Loc0 EXCEPT !.item = evictPick(list)]]
          /\ lastOp' = OpBegin(c, "Evict", NoKey, 0)
  /\ UNCHANGED <<list, items, nkey, nval, created, size, evictCh, recentlyCh,
                 isClosed, mut, evictedCalls, deleteRets, evictRets, sched, putCalls, ref, syn,
                 retouched, touchOrder>>

\* key, value = item.Value.get(); return key, value, true
EvictRet(c) ==
  /\ pc[c] = "evict_ret"
  /\ evictRets' = Bump(evictRets, loc[c].item)
  /\ pc' = SetPc(c, "idle")
  /\ loc' = [loc EXCEPT ![c] = Loc0]
  /\ lastOp' = IF lastOp.by = c
               THEN [OpEnd(c, TRUE, nval[loc[c].item], loc[c].item)
                       EXCEPT !.key = nkey[loc[c].item]]
               ELSE NoOp
  /\ UNCHANGED <<list, items, nkey, nval, created, size, evictCh, recentlyCh,
                 isClosed, mut, evictedCalls, deleteRets, sched, putCalls, ref, syn, ops, retouched,
                 touchOrder>>

Evict(c) ==
  \/ EvictFront(c)
  \/ evictRemove(c)
  \/ evictDelete(c)
  \/ EvictRet(c)

\* ---------------------------------------------------------------- Resize

\* A Resize that stores one less than the size it is given.
ResizeStoreOneLess(c, n) ==
  /\ Begin(c)
  /\ size' = ToUint(n - 1)
  /\ pc' = SetPc(c, "resize_try")
  /\ lastOp' = OpBegin(c, "Resize", NoKey, n)
  /\ UNCHANGED <<list, items, nkey, nval, created, evictCh, recentlyCh,
                 isClosed, mut, loc, evictedCalls, deleteRets, evictRets,
                 sched, putCalls, ref, syn, retouched, touchOrder>>

\* atomic.StoreUint64(&l.size, uint64(size))
ResizeStore(c, n) ==
  /\ Begin(c)
  /\ size' = ToUint(n)
  /\ pc' = SetPc(c, "resize_try")
  /\ lastOp' = OpBegin(c, "Resize", NoKey, n)
  /\ UNCHANGED <<list, items, nkey, nval, created, evictCh, recentlyCh,
                 isClosed, mut, loc, evictedCalls, deleteRets, evictRets,
                 sched, putCalls, ref, syn, retouched, touchOrder>>

\* l.tryEvict(); return
ResizeTry(c) ==
  /\ pc[c] = "resize_try"
  /\ evictCh' = tryEvict(evictCh)
  /\ pc' = SetPc(c, "idle")
  /\ lastOp' = OpEnd(c, FALSE, 0, NoNode)
  /\ UNCHANGED <<list, items, nkey, nval, created, size, recentlyCh,
                 isClosed, mut, loc, evictedCalls, deleteRets, evictRets,
                 sched, putCalls, ref, syn, ops, retouched, touchOrder>>

Resize(c) ==
  \/ \E n \in ResizeArgs : ResizeStore(c, n)
  \/ ResizeTry(c)

\* ----------------------------------------------------------------- Close

\* atomic.StoreUint32(&l.isClosed, 1)
Close(c) ==
  /\ Begin(c)
  /\ isClosed' = 1
  /\ lastOp' = OpWhole(c, "Close", NoKey, 0, FALSE, 0, NoNode)
  /\ UNCHANGED <<list, items, nkey, nval, created, size, evictCh, recentlyCh,
                 mut, pc, loc, evictedCalls, deleteRets, evictRets, sched, putCalls, ref, syn,
                 retouched, touchOrder>>

\* --------------------------------------------------------------- ForEach

\* l.linked.ForEach(...) under the list's read lock; the visit function
\* answers FALSE at its stopAt-th call.
ForEach(c, stopAt) ==
  /\ Begin(c)
  /\ lastOp' = IF OthersIdle(c)
               THEN [OpWhole(c, "ForEach", NoKey, stopAt, FALSE, 0, NoNode)
                       EXCEPT !.log = [i \in 1 .. Len(linkedForEach(list, stopAt, 0)) |->
                                         <<nkey[linkedForEach(list, stopAt, 0)[i][1]],
                                           linkedForEach(list, stopAt, 0)[i][2]>>]]
               ELSE NoOp
  /\ UNCHANGED <<sched, putCalls, ref, syn, list, items, nkey, nval, created, size, evictCh, recentlyCh,
                 isClosed, mut, pc, loc, evictedCalls, deleteRets, evictRets,
                 retouched, touchOrder>>

\* ------------------------------------------------------- channelRecently

\* for atomic.LoadUint32(&l.isClosed) == 0
channelRecentlyCheck ==
  /\ pc[RW] = "r_check"
  /\ pc' = SetPc(RW, IF isClosed = 0 THEN "r_recv" ELSE "done")
  /\ UNCHANGED <<list, items, nkey, nval, created, size, evictCh, recentlyCh,
                 isClosed, mut, loc, evictedCalls, deleteRets, evictRets,
                 sched, putCalls, ref, syn, ops, ops, retouched, touchOrder, lastOp>>

\* item := <-l.recentlyCh
channelRecentlyRecv ==
  /\ pc[RW] = "r_recv"
  /\ recentlyCh # <<>>
  /\ recentlyCh' = Tail(recentlyCh)
  /\ loc' = [loc EXCEPT ![RW].item = Head(recentlyCh)]
  /\ pc' = SetPc(RW, "r_move")
  /\ UNCHANGED <<list, items, nkey, nval, created, size, evictCh, isClosed,
                 mut, evictedCalls, deleteRets, evictRets, sched, putCalls, ref, syn, ops, retouched,
                 touchOrder, lastOp>>

\* l.linked.MoveToBack(item)
channelRecentlyMove ==
  /\ pc[RW] = "r_move"
  /\ list' = MoveToBack(list, loc[RW].item)
  /\ loc' = [loc EXCEPT ![RW] = Loc0]
  /\ pc' = SetPc(RW, "r_check")
  /\ UNCHANGED <<items, nkey, nval, created, size, evictCh, recentlyCh,
                 isClosed, mut, evictedCalls, deleteRets, evictRets, sched, putCalls, ref, syn, ops,
                 retouched, touchOrder, lastOp>>

channelRecently ==
  \/ channelRecentlyCheck
  \/ channelRecentlyRecv
  \/ channelRecentlyMove

\* ---------------------------------------------------------- channelEvict

\* for atomic.LoadUint32(&l.isClosed) == 0
channelEvictCheck ==
  /\ pc[EW] = "e_check"
  /\ pc' = SetPc(EW, IF isClosed = 0 THEN "e_recv" ELSE "done")
  /\ UNCHANGED <<list, items, nkey, nval, created, size, evictCh, recentlyCh,
                 isClosed, mut, loc, evictedCalls, deleteRets, evictRets,
                 sched, putCalls, ref, syn, ops, ops, retouched, touchOrder, lastOp>>

\* <-l.evictCh
channelEvictRecv ==
  /\ pc[EW] = "e_recv"
  /\ evictCh > 0
  /\ evictCh' = evictCh - 1
  /\ pc' = SetPc(EW, "e_len")
  /\ UNCHANGED <<list, items, nkey, nval, created, size, recentlyCh,
                 isClosed, mut, loc, evictedCalls, deleteRets, evictRets,
                 sched, putCalls, ref, syn, ops, ops, retouched, touchOrder, lastOp>>

\* A sweep that goes on while the list is at its capacity.
sweepAtCapacity(len, cap) == len >= cap

\* The condition of the sweep: l.Len() > l.Cap()
sweepMore(len, cap) == len > cap

\* for l.Len() > l.Cap(): the call of l.Len()
channelEvictLen ==
  /\ pc[EW] = "e_len"
  /\ loc' = [loc EXCEPT ![EW].n = LruLen]
  /\ pc' = SetPc(EW, "e_cap")
  /\ UNCHANGED <<list, items, nkey, nval, created, size, evictCh, recentlyCh,
                 isClosed, mut, evictedCalls, deleteRets, evictRets, sched, putCalls, ref, syn, ops,
                 retouched, touchOrder, lastOp>>

\* for l.Len() > l.Cap(): the call of l.Cap() and the comparison
channelEvictCap ==
  /\ pc[EW] = "e_cap"
  /\ pc' = SetPc(EW, IF sweepMore(loc[EW].n, Cap) THEN "ev_front" ELSE "e_check")
  /\ loc' = [loc EXCEPT ![EW] = Loc0]
  /\ UNCHANGED <<list, items, nkey, nval, created, size, evictCh, recentlyCh,
                 isClosed, mut, evictedCalls, deleteRets, evictRets, sched, putCalls, ref, syn, ops,
                 retouched, touchOrder, lastOp>>

\* l.evict() of the sweep: node := l.linked.Front(); nil returns to the
\* condition of the sweep.
channelEvictFront ==
  /\ pc[EW] = "ev_front"
  /\ pc' = SetPc(EW, IF evictPick(list) = NoNode THEN "e_len" ELSE "ev_remove")
  /\ loc' = [loc EXCEPT ![EW].item = evictPick(list)]
  /\ UNCHANGED <<list, items, nkey, nval, created, size, evictCh, recentlyCh,
                 isClosed, mut, evictedCalls, deleteRets, evictRets, sched, putCalls, ref, syn, ops,
                 retouched, touchOrder, lastOp>>

channelEvict ==
  \/ channelEvictCheck
  \/ channelEvictRecv
  \/ channelEvictLen
  \/ channelEvictCap
  \/ channelEvictFront
  \/ evictRemove(EW)
  \/ evictDelete(EW)

\* ------------------------------------------------------------------ Next

Caller(c) ==
  \/ Put(c)
  \/ Get(c)
  \/ Delete(c)
  \/ Evict(c)
  \/ Resize(c)
  \/ Close(c)
  \/ \E stopAt \in StopAts : ForEach(c, stopAt)

\* The steps of an operation that has begun.
Continue(c) ==
  /\ ~Idle(c)
  /\ Caller(c)

Next ==
  \/ \E c \in Callers : Caller(c)
  \/ channelRecently
  \/ channelEvict

Spec == Init /\ [][Next]_vars

SeqSpec == SeqInit /\ [][Next]_vars

\* The Go scheduler runs every goroutine that can run: the two workers, and
\* a caller inside an operation.
Fairness ==
  /\ WF_vars(channelRecently)
  /\ WF_vars(channelEvict)
  /\ \A c \in Callers : WF_vars(Continue(c))

FairSpec == Spec /\ Fairness

FairSeqSpec == SeqSpec /\ Fairness

\* ----------------------------------------------------------------- TestLRU

ScnInit == InitFor("scn")

\* The next call of the script.
ScnCall(c) ==
  /\ ops < Len(Script)
  /\ \/ Script[ops + 1].kind = "Put" /\ PutLoad(c, Script[ops + 1].key, ValOf)
     \/ Script[ops + 1].kind = "Get" /\ GetLoad(c, Script[ops + 1].key)
     \/ Script[ops + 1].kind = "Delete" /\ DeleteLoad(c, Script[ops + 1].key)
     \/ Script[ops + 1].kind = "Evict" /\ EvictFront(c)

\* The steps of the call that has begun.
ScnStep(c) ==
  \/ PutLock(c)
  \/ PutEnq(c)
  \/ PutSetRead(c)
  \/ PutSetWrite(c)
  \/ PutPush(c)
  \/ PutStore(c)
  \/ PutTry(c)
  \/ GetEnq(c)
  \/ GetRead(c)
  \/ DeleteRemove(c)
  \/ DeleteRead(c)
  \/ evictRemove(c)
  \/ evictDelete(c)
  \/ EvictRet(c)

ScnNext ==
  \/ ScnCall("c1")
  \/ ScnStep("c1")
  \/ channelRecently
  \/ channelEvict

ScnSpec == ScnInit /\ [][ScnNext]_vars

\* ------------------------------------------------------ racing callers
\* One Put by c1 sets up the cache (key a or another key) and the workers
\* settle; then c1 and c2 each make one Put of key a, at any time. A
\* caller may call Close at any time.

RaceInit == InitFor("race")

\* The number of Puts begun.
RacePuts == putCalls["c1"].n + putCalls["c2"].n

RacePut(c) ==
  /\ RacePuts = 0 => c = "c1"
  /\ RacePuts = 1 => Settled
  /\ RacePuts >= 1 => putCalls[c].n = (IF c = "c1" THEN 1 ELSE 0)
  /\ \E k \in (IF RacePuts = 0 THEN {"a", "b"} ELSE {"a"}) : PutLoad(c, k, ValOf)

RaceClose(c) ==
  /\ isClosed = 0
  /\ Close(c)

RaceNext ==
  \/ \E c \in Callers : RacePut(c)
  \/ \E c \in Callers : PutLock(c)
  \/ \E c \in Callers : PutEnq(c)
  \/ \E c \in Callers : PutSetRead(c)
  \/ \E c \in Callers : PutSetWrite(c)
  \/ \E c \in Callers : PutPush(c)
  \/ \E c \in Callers : PutStore(c)
  \/ \E c \in Callers : PutTry(c)
  \/ \E c \in Callers : RaceClose(c)
  \/ channelRecently
  \/ channelEvict

RaceSpec == RaceInit /\ [][RaceNext]_vars

\* ------------------------------------------------- the reference cache
\* The single-threaded LRU on container/list: evictList has the most recent
\* entry at its front, and every call runs alone. A list element is named
\* by its key. Calls after a Purge are left out.

RefInit == InitFor("ref")

\* Len(): len(c.entries)
RefLen(r) == Cardinality(r.entries)

\* Contains(key)
RefContains(r, k) == k \in r.entries

MoveToFront(l, k) == IF InList(l, k) THEN <<k>> \o Remove(l, k) ELSE l

\* removeElement(e): out of the list and out of the map (and onEvict).
removeElement(r, k) ==
  [r EXCEPT !.evictList = Remove(@, k),
            !.entries = @ \ {k},
            !.values = [@ EXCEPT ![k] = 0]]

\* removeOldest(): the element at the back, when there is one.
removeOldest(r) ==
  IF r.evictList = <<>> THEN r ELSE removeElement(r, Back(r.evictList))

\* The reference cache is between two calls, and Purge was not called.
RefIdle == ref.pc = "idle" /\ ~ref.purged

\* Put(key, value)
RefPut(k, v) ==
  /\ RefIdle
  /\ ref' =
       IF k \in ref.entries
       THEN [ref EXCEPT !.evictList = MoveToFront(@, k), !.values = [@ EXCEPT ![k] = v]]
       ELSE LET r == [ref EXCEPT !.evictList = <<k>> \o @,
                                 !.entries = @ \cup {k},
                                 !.values = [@ EXCEPT ![k] = v]]
            IN IF Len(r.evictList) > r.size THEN removeOldest(r) ELSE r
  /\ UNCHANGED <<lruVars, syn>>

\* Get(key)
RefGet(k) ==
  /\ RefIdle
  /\ k \in ref.entries
  /\ ref' = [ref EXCEPT !.evictList = MoveToFront(@, k)]
  /\ UNCHANGED <<lruVars, syn>>

\* Remove(key)
RefRemove(k) ==
  /\ RefIdle
  /\ k \in ref.entries
  /\ ref' = removeElement(ref, k)
  /\ UNCHANGED <<lruVars, syn>>

\* removeOldest() made n times.
RECURSIVE removeOldestTimes(_, _)
removeOldestTimes(r, n) ==
  IF n <= 0 THEN r ELSE removeOldestTimes(removeOldest(r), n - 1)

\* Resize(size)
RefResize(n) ==
  /\ RefIdle
  /\ ref' = LET r == [ref EXCEPT !.size = IF n < 0 THEN 0 ELSE n]
            IN removeOldestTimes(r, RefLen(r) - r.size)
  /\ UNCHANGED <<lruVars, syn>>

\* Purge() is called.
PurgeCall ==
  /\ RefIdle
  /\ ref' = [ref EXCEPT !.pc = "purge_loop"]
  /\ UNCHANGED <<lruVars, syn>>

\* for c.Len() == 0 { k, v, ok := c.RemoveOldest(); if !ok { continue }; ... }
\* one turn of the loop.
PurgeLoop ==
  /\ ref.pc = "purge_loop"
  /\ RefLen(ref) = 0
  /\ ref' = removeOldest(ref)
  /\ UNCHANGED <<lruVars, syn>>

\* The loop is left: c.evictList.Init(), and Purge returns.
PurgeInit ==
  /\ ref.pc = "purge_loop"
  /\ RefLen(ref) # 0
  /\ ref' = [ref EXCEPT !.evictList = <<>>, !.pc = "idle", !.purged = TRUE]
  /\ UNCHANGED <<lruVars, syn>>

RefNext ==
  \/ \E k \in KeySet, v \in RefValues : RefPut(k, v)
  \/ \E k \in KeySet : RefGet(k)
  \/ \E k \in KeySet : RefRemove(k)
  \/ \E n \in RefSizes : RefResize(n)
  \/ PurgeCall
  \/ PurgeLoop
  \/ PurgeInit

RefSpec == RefInit /\ [][RefNext]_vars

\* ----------------------------------- the cache with synchronous promotion
\* The LRU whose callers move the node themselves, under itemsMut (the
\* index) and linkedMut (the list). A list element is named by its key. A
\* step that locks and unlocks a mutex within itself waits until the mutex
\* is free; a lock held from one step to another is in itemsW, itemsR or
\* linkedR.

SynInit == InitFor("syn")

SynKeys == {"a", "b"}

\* itemsMut.Lock() can be taken; itemsMut.RLock() can be taken.
ItemsFree == syn.itemsW = "none" /\ syn.itemsR = {}
ItemsReadable == syn.itemsW = "none"

\* linkedMut.Lock() can be taken.
LinkedFree == syn.linkedR = {}

SynIdle(c) == syn.pc[c] = "idle"

\* Put: l.itemsMut.Lock(); item, ok := l.items[key]
SynPutLock(c, k) ==
  /\ SynIdle(c)
  /\ ItemsFree
  /\ syn' = [syn EXCEPT !.itemsW = c,
                        !.key[c] = k,
                        !.pc[c] = IF k \in syn.items THEN "put_hit" ELSE "put_push"]
  /\ UNCHANGED <<lruVars, ref>>

\* Put, the key is present: l.toRecently(item) (which locks linkedMut),
\* the new value, and the return with the deferred l.itemsMut.Unlock().
SynPutHit(c) ==
  /\ syn.pc[c] = "put_hit"
  /\ LinkedFree
  /\ syn' = [syn EXCEPT !.list = MoveToBack(@, syn.key[c]),
                        !.itemsW = "none",
                        !.pc[c] = "idle"]
  /\ UNCHANGED <<lruVars, ref>>

\* Put, the key is absent: l.linkedMut.Lock(); PushBack; Unlock
SynPutPush(c) ==
  /\ syn.pc[c] = "put_push"
  /\ LinkedFree
  /\ syn' = [syn EXCEPT !.list = PushBack(@, syn.key[c]), !.pc[c] = "put_store"]
  /\ UNCHANGED <<lruVars, ref>>

\* l.items[key] = item; l.tryEvict(); return
SynPutStore(c) ==
  /\ syn.pc[c] = "put_store"
  /\ syn' = [syn EXCEPT !.items = @ \cup {syn.key[c]},
                        !.evictCh = tryEvict(@),
                        !.itemsW = "none",
                        !.pc[c] = "idle"]
  /\ UNCHANGED <<lruVars, ref>>

\* Get: l.itemsMut.RLock(); item, ok := l.items[key]; a miss returns.
SynGetLock(c, k) ==
  /\ SynIdle(c)
  /\ ItemsReadable
  /\ syn' = IF k \in syn.items
            THEN [syn EXCEPT !.itemsR = @ \cup {c}, !.key[c] = k, !.pc[c] = "get_hit"]
            ELSE syn
  /\ UNCHANGED <<lruVars, ref>>

\* l.toRecently(item); the value; return with l.itemsMut.RUnlock()
SynGetHit(c) ==
  /\ syn.pc[c] = "get_hit"
  /\ LinkedFree
  /\ syn' = [syn EXCEPT !.list = MoveToBack(@, syn.key[c]),
                        !.itemsR = @ \ {c},
                        !.pc[c] = "idle"]
  /\ UNCHANGED <<lruVars, ref>>

\* Delete: l.itemsMut.RLock(); item, ok := l.items[key]; a miss returns;
\* delete(l.items, key)
SynDeleteLock(c, k) ==
  /\ SynIdle(c)
  /\ ItemsReadable
  /\ syn' = IF k \in syn.items
            THEN [syn EXCEPT !.itemsR = @ \cup {c}, !.items = @ \ {k},
                             !.key[c] = k, !.pc[c] = "del_remove"]
            ELSE syn
  /\ UNCHANGED <<lruVars, ref>>

\* l.linkedMut.Lock(); l.linked.Remove(item); return with both unlocks
SynDeleteRemove(c) ==
  /\ syn.pc[c] = "del_remove"
  /\ LinkedFree
  /\ syn' = [syn EXCEPT !.list = Remove(@, syn.key[c]),
                        !.itemsR = @ \ {c},
                        !.pc[c] = "idle"]
  /\ UNCHANGED <<lruVars, ref>>

\* ForEach: l.linkedMut.RLock(); element := l.linked.Back()
SynForEachLock(c, stopAt) ==
  /\ SynIdle(c)
  /\ syn' = [syn EXCEPT !.linkedR = @ \cup {c},
                        !.at[c] = Len(syn.list),
                        !.stop[c] = stopAt,
                        !.pc[c] = "fe_elem"]
  /\ UNCHANGED <<lruVars, ref>>

\* element == nil: return with l.linkedMut.RUnlock()
SynForEachEnd(c) ==
  /\ syn.pc[c] = "fe_elem"
  /\ syn.at[c] = 0
  /\ syn' = [syn EXCEPT !.linkedR = @ \ {c}, !.stop[c] = 0, !.pc[c] = "idle"]
  /\ UNCHANGED <<lruVars, ref>>

\* l.itemsMut.RLock(); element.Value.get(); l.itemsMut.RUnlock(); iter:
\* a false answer breaks, and ForEach returns; else element.Prev()
SynForEachVisit(c) ==
  /\ syn.pc[c] = "fe_elem"
  /\ syn.at[c] > 0
  /\ ItemsReadable
  /\ syn' = IF Len(syn.list) - syn.at[c] + 1 = syn.stop[c]
            THEN [syn EXCEPT !.linkedR = @ \ {c}, !.at[c] = 0, !.stop[c] = 0,
                             !.pc[c] = "idle"]
            ELSE [syn EXCEPT !.at[c] = @ - 1]
  /\ UNCHANGED <<lruVars, ref>>

\* channelEvict: for range l.evictCh
SynEvictRecv ==
  /\ syn.pc[EW] = "recv"
  /\ syn.evictCh > 0
  /\ syn' = [syn EXCEPT !.evictCh = @ - 1, !.pc[EW] = "len"]
  /\ UNCHANGED <<lruVars, ref>>

\* for l.Len() > l.Cap()
SynEvictLen ==
  /\ syn.pc[EW] = "len"
  /\ syn' = [syn EXCEPT !.pc[EW] = IF sweepMore(Len(syn.list), ToInt(syn.size))
                                   THEN "evict" ELSE "recv"]
  /\ UNCHANGED <<lruVars, ref>>

\* Evict: l.linkedMut.Lock(); node := l.linked.Front(); nil returns;
\* l.linked.Remove(node); l.linkedMut.Unlock()
SynEvictRemove ==
  /\ syn.pc[EW] = "evict"
  /\ LinkedFree
  /\ syn' = IF syn.list = <<>>
            THEN [syn EXCEPT !.pc[EW] = "len"]
            ELSE [syn EXCEPT !.list = Tail(@), !.key[EW] = Head(syn.list),
                             !.pc[EW] = "evict_del"]
  /\ UNCHANGED <<lruVars, ref>>

\* l.itemsMut.Lock(); delete(l.items, key); l.itemsMut.Unlock(); callback
SynEvictDelete ==
  /\ syn.pc[EW] = "evict_del"
  /\ ItemsFree
  /\ syn' = [syn EXCEPT !.items = @ \ {syn.key[EW]}, !.key[EW] = NoKey,
                        !.pc[EW] = "len"]
  /\ UNCHANGED <<lruVars, ref>>

\* The steps of a call that has begun.
SynStep(c) ==
  \/ SynPutHit(c)
  \/ SynPutPush(c)
  \/ SynPutStore(c)
  \/ SynGetHit(c)
  \/ SynDeleteRemove(c)
  \/ SynForEachEnd(c)
  \/ SynForEachVisit(c)

SynCall(c) ==
  \/ \E k \in SynKeys : SynPutLock(c, k)
  \/ \E k \in SynKeys : SynGetLock(c, k)
  \/ \E k \in SynKeys : SynDeleteLock(c, k)
  \/ \E stopAt \in StopAts : SynForEachLock(c, stopAt)

SynNext ==
  \/ \E c \in Callers : SynCall(c)
  \/ \E c \in Callers : SynStep(c)
  \/ SynEvictRecv
  \/ SynEvictLen
  \/ SynEvictRemove
  \/ SynEvictDelete

SynSpec == SynInit /\ [][SynNext]_vars

\* ---------------------------------------------------------------- claims

AllIdle == \A c \in Callers : Idle(c)

Present == {k \in DOMAIN items : Contains(k)}

\* The last operation is one of the given kind that has returned.
Returned(kind) ==
  /\ lastOp.by # "none"
  /\ lastOp.kind = kind
  /\ lastOp.done

\* C5: after Resize(n) with a negative n has returned, Cap() is 0.
C5_NegativeResizeClampsToZero ==
  (Returned("Resize") /\ lastOp.arg < 0) => Cap = 0

\* C6: ForEach visits the entries most recent first, and after a visit
\* has answered FALSE the visit function is not called again.
C6_ForEachStopsOnFalse ==
  Returned("ForEach") =>
    /\ \A i \in 1 .. Len(lastOp.log) :
         lastOp.log[i][2] = FALSE => i = Len(lastOp.log)
    /\ \A i \in 1 .. Len(lastOp.log) : lastOp.log[i][1] = lastOp.preKeys[i]

\* C7: once Close() has returned, a worker that has not terminated can
\* still take a step by itself, so that under fair scheduling both workers
\* terminate without a further cache operation.
C7_CloseStopsWorkers ==
  isClosed = 1 =>
    /\ pc[RW] # "done" => ENABLED channelRecently
    /\ pc[EW] # "done" => ENABLED channelEvict

\* C8: the removal of an entry is reported exactly once: by one Delete
\* that returns it, or by one call of onEvicted (and at most one Evict()
\* returns it); never by both, and never twice by onEvicted.
C8_RemovalReportedOnce ==
  \A n \in NodeIds :
    /\ evictedCalls[n] <= 1
    /\ evictRets[n] <= 1
    /\ deleteRets[n] <= 1
    /\ ~(deleteRets[n] >= 1 /\ evictedCalls[n] >= 1)
    /\ (AllIdle /\ pc[EW] \notin {"ev_remove", "ev_delete"}
          /\ n <= created /\ ~InList(list, n) /\ nkey[n] # NoKey /\ mut = "none")
         => deleteRets[n] + evictedCalls[n] >= 1

\* C9: when no operation and no evict() of the worker is in progress, the
\* list holds as many nodes as the index holds keys.
C9_ListMatchesIndex ==
  (AllIdle /\ pc[EW] \notin {"ev_front", "ev_remove", "ev_delete"})
    => LruLen = Cardinality(Present)

\* The sequence without its elements equal to x.
Without(seq, x) == SelectSeq(seq, LAMBDA y : y # x)

\* C10: in a settled cache, Delete(key) on a present key returns
\* (value, true), and then Contains(key) is false, Len() is one less and
\* the remaining keys keep their order; Delete on an absent key returns
\* found = false and changes nothing.
C10_DeleteRemovesOneKey ==
  (Returned("Delete") /\ lastOp.settled) =>
    /\ lastOp.found = (lastOp.key \in lastOp.preHas)
    /\ lastOp.found =>
         /\ lastOp.ret = lastOp.prePeek
         /\ ~Contains(lastOp.key)
         /\ LruLen = Len(lastOp.preKeys) - 1
         /\ Keys = Without(lastOp.preKeys, lastOp.key)
    /\ ~lastOp.found =>
         /\ Keys = lastOp.preKeys
         /\ Values = lastOp.preValues
         /\ Present = lastOp.preHas
         /\ Cap = lastOp.preCap

\* Some caller is inside a Put.
PutActive ==
  \E c \in Callers :
    pc[c] \in {"put_lock", "put_enq", "put_setR", "put_setW", "put_push",
               "put_store", "put_try"}

\* C1: whenever Len() exceeds Cap() in an open cache, the eviction worker
\* eventually brings Len() down to Cap() or below, unless a caller makes a
\* further Put (or closes the cache).
C1_EvictionConverges ==
  (isClosed = 0 /\ LruLen > Cap) ~> (LruLen <= Cap \/ PutActive \/ isClosed = 1)

\* The eviction worker takes node n out of the list in this step.
WorkerRemoves(n) ==
  /\ pc[EW] = "ev_remove"
  /\ pc'[EW] = "ev_delete"
  /\ loc[EW].item = n
  /\ InList(list, n)
  /\ ~InList(list', n)

\* The eviction worker picks a node in this step.
WorkerPicks ==
  /\ pc[EW] = "ev_front"
  /\ pc'[EW] = "ev_remove"

Pos(seq, x) == CHOOSE i \in 1 .. Len(seq) : seq[i] = x

\* The last completed Put or Get of m is earlier than that of n.
TouchedBefore(m, n) ==
  /\ InList(touchOrder, m)
  /\ InList(touchOrder, n)
  /\ Pos(touchOrder, m) < Pos(touchOrder, n)

\* Among the entries never touched again, node n left before node m:
\* nodes are numbered in the order of their insertion.
FifoStep(n) ==
  n \notin retouched =>
    \A i \in 1 .. Len(list') : list'[i] \notin retouched => list'[i] > n

\* C2 as stated: when the eviction worker removes an entry, no entry that
\* remains has an earlier most recent completed Put or Get, and the
\* entries never touched again leave in the order of their insertion.
C2_EvictsLeastRecentlyTouched ==
  [][\A n \in NodeIds :
       WorkerRemoves(n) =>
         /\ \A i \in 1 .. Len(list') : ~TouchedBefore(list'[i], n)
         /\ FifoStep(n)]_vars

\* C2 as amended: the eviction worker picks the entry at the front of the
\* list, the one whose insertion or applied promotion is the oldest (a Get
\* or Put whose promotion is still queued does not count), and the entries
\* never touched again leave in the order of their insertion.
C2_EvictsFrontOfList ==
  [][/\ WorkerPicks => (list # <<>> /\ loc'[EW].item = Head(list))
     /\ \A n \in NodeIds : WorkerRemoves(n) => FifoStep(n)]_vars

\* The eviction worker has removed an entry never touched again while a
\* later one, never touched again either, remains.
C2_Witness ==
  /\ pc[EW] = "ev_delete"
  /\ loc[EW].item \notin retouched
  /\ ~InList(list, loc[EW].item)
  /\ deleteRets[loc[EW].item] = 0
  /\ \E i \in 1 .. Len(list) :
       list[i] \notin retouched /\ list[i] > loc[EW].item

\* The promotion of node n is queued, or the promotion worker holds it.
PromotionPending(n) ==
  \/ InList(recentlyCh, n)
  \/ pc[RW] = "r_move" /\ loc[RW].item = n

\* The key is first in Keys(), or its promotion is on its way: queued or
\* held by a promotion worker that can take a step.
PromotedOrOnItsWay(k, n) ==
  \/ LruLen > 0 /\ Keys[1] = k
  \/ PromotionPending(n) /\ ENABLED channelRecently

\* C3: after Get(key) on a present key has returned (value, true), with no
\* other operation running or following, in an open cache whose eviction
\* worker has nothing to remove, the promotion worker moves the key to the
\* first place of Keys(), and the Get leaves the stored value as it was.
C3_GetPromotes ==
  (Returned("Get") /\ lastOp.found /\ lastOp.calm) =>
    /\ lastOp.ret = lastOp.prePeek
    /\ Contains(lastOp.key)
    /\ Peek(lastOp.key) = lastOp.prePeek
    /\ PromotedOrOnItsWay(lastOp.key, lastOp.node)

\* C4: Put(key, v2) on a key that holds v1, with no other operation
\* running or following, in an open cache whose eviction worker has
\* nothing to remove, returns (v1, true), leaves Len() as it was, makes
\* Peek(key) return v2, and the promotion worker moves the key to the
\* first place of Keys().
C4_PutExistingKey ==
  (Returned("Put") /\ lastOp.key \in lastOp.preHas /\ lastOp.calm) =>
    /\ lastOp.found
    /\ lastOp.ret = lastOp.prePeek
    /\ LruLen = Len(lastOp.preKeys)
    /\ Contains(lastOp.key)
    /\ Peek(lastOp.key) = lastOp.arg
    /\ PromotedOrOnItsWay(lastOp.key, lastOp.node)

\* C11: Evict() on an empty cache returns evicted = false, every time it is
\* called and whatever else is running: the call returns in the step that
\* finds the list empty, no Evict() result and no call of onEvicted is
\* counted, and the list, the index, the entries and the capacity are as
\* they were.
C11_EvictOnEmpty ==
  [][\A c \in Callers :
       (EvictFront(c) /\ list = <<>>) =>
         /\ pc'[c] = "idle"
         /\ lastOp'.by = c => (lastOp'.done /\ ~lastOp'.found)
         /\ UNCHANGED <<list, items, nkey, nval, size, evictCh, recentlyCh,
                        evictedCalls, evictRets, deleteRets>>]_vars

\* Evict() has returned evicted = false on an empty cache for the second
\* time in a row at least.
C11_Witness ==
  /\ Returned("Evict")
  /\ lastOp.preKeys = <<>>
  /\ ~lastOp.found
  /\ ops >= 2
  /\ created = 0

\* Every operation so far was a Put that added a node, and the keys of these
\* Puts are pairwise distinct.
OnlyDistinctPuts ==
  /\ created = ops
  /\ \A m, n \in 1 .. created : m # n => nkey[m] # nkey[n]

\* C12: in a cache created with capacity c, after every Put of a sequence
\* of Puts with pairwise distinct keys, as long as their number is at most
\* c, Len() is that number, Cap() is c, and no entry has been evicted.
C12_PutsWithinCapacity ==
  (AllIdle /\ OnlyDistinctPuts /\ ops <= Cap) =>
    /\ LruLen = ops
    /\ Cardinality(Present) = ops
    /\ Cap \in SizesOf(sched)
    /\ \A n \in 1 .. created :
         /\ InList(list, n)
         /\ items[nkey[n]] = n
         /\ evictedCalls[n] = 0

\* Three Puts with distinct keys have filled a cache of capacity 3, and the
\* eviction worker has taken its triggers.
C12_Witness ==
  /\ Settled
  /\ OnlyDistinctPuts
  /\ ops = 3
  /\ Cap = 3
  /\ LruLen = 3

\* C13: if Len() <= Cap() holds in a settled cache and Resize(c) is called
\* with c >= Cap(), then no entry is evicted: while no other operation
\* follows, the keys, their values, their order and the index are as before
\* the call, and onEvicted is not invoked.
C13_ResizeLargerKeepsEntries ==
  (/\ lastOp.by # "none"
   /\ lastOp.kind = "Resize"
   /\ lastOp.settled
   /\ Len(lastOp.preKeys) <= lastOp.preCap
   /\ lastOp.arg >= lastOp.preCap) =>
    /\ Keys = lastOp.preKeys
    /\ Values = lastOp.preValues
    /\ Present = lastOp.preHas
    /\ evictedCalls = lastOp.preEvicted
    /\ pc[EW] \notin {"ev_front", "ev_remove", "ev_delete"}

\* Resize(3) on a settled cache of capacity 2 that holds 2 entries has
\* returned, and the eviction worker has taken the trigger and waits again.
C13_Witness ==
  /\ Returned("Resize")
  /\ lastOp.settled
  /\ lastOp.arg = 3
  /\ lastOp.preCap = 2
  /\ Len(lastOp.preKeys) = 2
  /\ Settled

\* The values the Puts of TestLRU write: value0 .. value4 and new-value2.
ScnValue(i) == i + 2
ScnNewValue2 == ScnValue(5)

\* TestLRU is at the testStep after its n-th call: the call has returned and
\* the workers have settled.
ScnAfter(n) == sched = "scn" /\ ops = n /\ Settled

\* Values() is index-aligned with Keys().
ValuesAligned == \A i \in 1 .. Len(Keys) : Values[i] = Peek(Keys[i])

\* C14: the scenario of TestLRU, with the workers settled at every
\* testStep. Capacity 4: after Put key0..key4, Keys() is key4, key3, key2,
\* key1 and key0 was evicted; after Put(key2, new-value2), key2 is first;
\* Peek(key3) returns value3 and changes nothing; after Get(key3), key3 is
\* first; after Delete(key3), Len() is 3 and key3 is absent; Evict() returns
\* (key1, value1, true); and Values() is aligned with Keys() throughout.
C14_Scenario ==
  /\ (sched = "scn" /\ Settled) => (ValuesAligned /\ Cap = ScenarioSize)
  /\ ScnAfter(6) =>
       /\ Keys = <<"key4", "key3", "key2", "key1">>
       /\ Values = <<ScnValue(4), ScnValue(3), ScnValue(2), ScnValue(1)>>
       /\ ~Contains("key0")
       /\ evictedCalls[1] = 1
       /\ Peek("key3") = ScnValue(3)
  /\ ScnAfter(7) =>
       /\ Keys = <<"key2", "key4", "key3", "key1">>
       /\ Values = <<ScnNewValue2, ScnValue(4), ScnValue(3), ScnValue(1)>>
       /\ Returned("Put") /\ lastOp.found /\ lastOp.ret = ScnValue(2)
       /\ Peek("key3") = ScnValue(3)
  /\ ScnAfter(8) =>
       /\ Keys = <<"key3", "key2", "key4", "key1">>
       /\ Values = <<ScnValue(3), ScnNewValue2, ScnValue(4), ScnValue(1)>>
       /\ Returned("Get") /\ lastOp.found /\ lastOp.ret = ScnValue(3)
  /\ ScnAfter(9) =>
       /\ LruLen = 3
       /\ ~Contains("key3")
       /\ Keys = <<"key2", "key4", "key1">>
       /\ Returned("Delete") /\ lastOp.found /\ lastOp.ret = ScnValue(3)
  /\ ScnAfter(10) =>
       /\ Returned("Evict") /\ lastOp.found
       /\ lastOp.key = "key1" /\ lastOp.ret = ScnValue(1)
       /\ Keys = <<"key2", "key4">>
       /\ Values = <<ScnNewValue2, ScnValue(4)>>

\* TestLRU has made its last Evict() and the workers have settled.
C14_Witness ==
  /\ ScnAfter(10)
  /\ Returned("Evict")
  /\ lastOp.found

\* C15: on the reference cache Purge() returns in every state, empty or
\* not (a turn of its loop that runs with nothing to remove would repeat
\* for ever), and after it has returned Len() is 0 and Contains(k) is
\* false for every key.
C15_PurgeClears ==
  /\ (ref.pc = "purge_loop" /\ RefLen(ref) = 0) => ref.evictList # <<>>
  /\ ref.purged =>
       /\ RefLen(ref) = 0
       /\ \A k \in KeySet : ~RefContains(ref, k)

\* Both racing Puts of key a have returned, and their calls overlapped.
Raced ==
  /\ sched = "race"
  /\ putCalls["c1"].n = 2
  /\ putCalls["c2"].n = 1
  /\ \A c \in Callers : putCalls[c].done /\ putCalls[c].with

\* Len() before the race.
RaceLen0 ==
  IF putCalls["c1"].len < putCalls["c2"].len
  THEN putCalls["c1"].len ELSE putCalls["c2"].len

\* The key was absent when the race began.
RaceOnAbsentKey == \E c \in Callers : putCalls[c].absent

\* One node for key a was added: one call returned replaced = false, the
\* other true, Len() is one more, and the list holds one node of key a,
\* the one the index has.
OneNodeAdded ==
  /\ {putCalls[c].replaced : c \in Callers} = {TRUE, FALSE}
  /\ LruLen = RaceLen0 + 1
  /\ Cardinality({i \in 1 .. Len(list) : nkey[list[i]] = "a"}) = 1
  /\ Contains("a")
  /\ InList(list, items["a"])

\* C16 as stated: when two callers concurrently Put the same absent key,
\* exactly one node is added: one call returns replaced = false, the other
\* replaced = true, and Len() grows by exactly 1.
C16_ConcurrentPutsAddOneNode ==
  (Raced /\ RaceOnAbsentKey) => OneNodeAdded

\* C16 as amended: the same, when the capacity has room for the new entry
\* (Len() + 1 <= Cap() before the two calls), so that no eviction removes
\* the node between the two calls or after them.
C16_ConcurrentPutsAddOneNodeWithRoom ==
  (Raced /\ RaceOnAbsentKey /\ RaceLen0 + 1 <= Cap) => OneNodeAdded

\* Both callers found the key absent at their first Load, the capacity had
\* room, and both have returned.
C16_Witness ==
  /\ Raced
  /\ \A c \in Callers : putCalls[c].absent
  /\ RaceLen0 + 1 <= Cap
  /\ OneNodeAdded

\* The results of the two calls are those of the calls made one after the
\* other, x first: x returns the value before the race, y returns the value
\* x wrote, and the entry holds the value y wrote.
SerialOrder(x, y) ==
  /\ putCalls[x].replaced
  /\ putCalls[y].replaced
  /\ putCalls[x].prev = putCalls[x].pre
  /\ putCalls[y].prev = putCalls[x].val
  /\ Peek("a") = putCalls[y].val

\* C17: updating the value of an entry is atomic: when two callers
\* concurrently Put(k, a) and Put(k, b) on a key that holds v0, the
\* previous values returned and the value stored at the end are those of
\* some serial order of the two calls, never v0 for both.
C17_ValueUpdateAtomic ==
  (Raced /\ ~RaceOnAbsentKey) =>
    (SerialOrder("c1", "c2") \/ SerialOrder("c2", "c1"))

\* C18: a caller that waits to enqueue a node on the full promotion queue
\* has a promotion worker that will receive from it, in every reachable
\* state, those after Close() included: the caller does not wait for ever.
C18_EnqueueReturns ==
  \A c \in Callers :
    (pc[c] \in {"put_enq", "get_enq"} /\ Len(recentlyCh) >= RecentlyChCap)
      => pc[RW] # "done"

\* C19: in the cache with synchronous promotion no interleaving of
\* concurrent Put, Get, Delete and ForEach calls reaches a deadlock:
\* whenever calls are in progress, one of them can take a step (no call
\* holds the list lock and waits for the index lock while another holds the
\* index lock and waits for the list lock).
C19_NoDeadlock ==
  (\E c \in Callers : ~SynIdle(c)) =>
    \E c \in Callers : ~SynIdle(c) /\ ENABLED SynStep(c)

\* C20: every eviction sweep terminates: once the eviction worker has taken
\* a trigger, and while the callers make no further Put, it makes finitely
\* many evictions and goes back to waiting for the next trigger, for every
\* capacity NewLRU or Resize can set (a negative argument of Resize
\* included) and also when the cache is empty. Every turn of the sweep
\* but the last removes an entry: when evict() finds the list empty and no
\* call is running, the condition of the sweep is false at its next test.
C20_SweepTerminates ==
  (pc[EW] = "ev_front" /\ evictPick(list) = NoNode /\ AllIdle)
    => ~sweepMore(LruLen, Cap)

\* C21: the eviction worker never evicts below the capacity: whenever the
\* worker of the sweep is at l.linked.Remove(node) with a node that is on
\* the list, so that its next step takes an entry off the list, Len() >
\* Cap() holds in that state, however the sweep is interleaved with Delete,
\* Evict and Resize of the callers.
C21_WorkerEvictsOnlyAboveCapacity ==
  (pc[EW] = "ev_remove" /\ InList(list, loc[EW].item))
    => sweepMore(LruLen, Cap)

====
